---- MODULE Spec2Model ----
(***************************************************************************)
(* State-machine model of Scripts/ensemble_consensus.py: the consensus     *)
(* scorer calculate_metrics, its three sub-computations and its caller     *)
(* main; of the scoring loops of Scripts/pi_labs_scorer.py and             *)
(* Scripts/cal_pi_scores.py; of main of Scripts/evaluate_answer.py; of the *)
(* grid search of Scripts/text_generation.py; and of analyze_quadrants of  *)
(* Scripts/create_quadrants.py.                                            *)
(*                                                                         *)
(* Texts.  A text is a sequence of atoms.  An atom is a word of the word   *)
(* pool or the atom " ", a run of extra whitespace; neighbouring atoms are *)
(* separated by one blank.  <<>> is the empty string, <<" ">> a            *)
(* whitespace-only string, <<"Cat", "a">> the string "Cat a".              *)
(*                                                                         *)
(* Numbers.  A Python float x is the integer round(x * Scale); the values  *)
(* reported after round(x, 4) are integers in units of 0.0001.             *)
(***************************************************************************)
EXTENDS Integers, Sequences, FiniteSets, TLC

VARIABLES
    pc,                \* where the program is
    caller,            \* who called calculate_metrics: "main" or "api"
    prompt,            \* the prompt text
    texts,             \* the candidate mapping, a sequence of [id, text] in key order
    consensus_scores,  \* calculate_metrics' local, id -> float
    prompt_scores,     \* calculate_metrics' local, id -> float
    results,           \* calculate_metrics' local, the list of records
    idx,               \* how many items of texts.items() the loop has taken
    error,             \* the exception raised, if any
    csv,               \* the output file main writes
    prev,              \* the list an earlier call of calculate_metrics returned
    rep_pc,            \* where a direct call of calculate_repetition_rate is
    rep_text,          \* its argument
    rep_rate,          \* its return value
    script,            \* which scoring script runs: "pi_labs_scorer" or "cal_pi_scores"
    pi_pc,             \* where its main is
    pi_texts,          \* the file names of its texts, in the order of texts.items()
    df_original,       \* cal_pi_scores: the rows of the original scores CSV
    calibration,       \* cal_pi_scores: how far the calibration job got
    calibrated_spec,   \* cal_pi_scores: what calibrate_scoring_system returned
    pi_results,        \* results / calibrated_results
    pi_i,              \* how many items the scoring loop has taken
    attempts,          \* the scoring calls made so far: file name, spec, success
    output_csv,        \* the file the script writes
    ev_pc,             \* where evaluate_answer.main is
    standard_scores,   \* evaluate_answer: the standard scores, or None
    calibrated_scores, \* evaluate_answer: the calibrated scores, or None
    ev_results,        \* evaluate_answer: the rows built so far
    ev_csv,            \* evaluate_answer: the file main writes
    grid_pc,           \* text_generation: the request the grid search makes next
    temp_i,            \* text_generation: position of the loop over temperatures
    top_p_i,           \* text_generation: position of the loop over top_p_values
    max_tok_i,         \* text_generation: position of the loop over max_tokens_values
    current_run,       \* text_generation: the progress counter
    runs,              \* text_generation: the requests made so far, in order
    files,             \* text_generation: file name -> the runs that wrote the file
    service,           \* text_generation: which requests the services fail
    quad_pc,           \* create_quadrants: where analyze_quadrants is
    df,                \* create_quadrants: the merged frame, a list of rows
    pi_col,            \* create_quadrants: the PI score column analyze_quadrants chose
    pi_median,         \* create_quadrants: the median of that column, in half units
    consensus_median,  \* create_quadrants: the median of final_consensus_score, likewise
    quadrant           \* create_quadrants: the labels df.apply has computed so far

\* the state of ensemble_consensus.py
ensembleVars ==
    <<pc, caller, prompt, texts, consensus_scores, prompt_scores, results, idx, error, csv>>

\* the state of pi_labs_scorer.py and cal_pi_scores.py
piVars ==
    <<script, pi_pc, pi_texts, df_original, calibration, calibrated_spec, pi_results, pi_i,
      attempts, output_csv>>

\* the state of evaluate_answer.py
evalVars == <<ev_pc, standard_scores, calibrated_scores, ev_results, ev_csv>>

\* the state of the other scripts
\* the state of text_generation.py
gridVars == <<grid_pc, temp_i, top_p_i, max_tok_i, current_run, runs, files, service>>

\* the state of create_quadrants.py
quadVars == <<quad_pc, df, pi_col, pi_median, consensus_median, quadrant>>

scriptVars == <<evalVars, gridVars, quadVars>>

\* the state the steps of one call of calculate_metrics leave alone
otherVars == <<prev, rep_pc, rep_text, rep_rate, piVars, scriptVars>>

vars == <<ensembleVars, otherVars>>

(* ------------------------------ bounds --------------------------------- *)

\* most candidates in one mapping
MaxCands == 2

\* most atoms in the prompt and all candidate texts together
MaxTotalWords == 3

\* the longest text calculate_repetition_rate is called on directly, in words
MaxRepWords == 6

\* the most text files the scoring scripts find
MaxPiTexts == 3

\* the most rows of the merged frame of create_quadrants
MaxQuadRows == 3

\* the most question labels of a response that does not carry all labels
MaxEvalKeys == 2

\* the longest text of the three-candidate scenario, in atoms
MaxScenarioWords == 2

(* --------------------------- fixed point -------------------------------- *)

\* the integer that stands for the float 1.0
Scale == 10^7

\* the integer that stands for a reported 1.0 (4 decimal digits)
Unit4 == 10^4

\* a * b for two floats a, b >= 0, rounded to the nearest representable value
FMul(a, b) ==
    LET a1 == a \div 10^4
        a0 == a % 10^4
        b1 == b \div 10^4
        b0 == b % 10^4
    IN  a1 * b1 * 10 + ((a1 * b0 + a0 * b1) + (a0 * b0 + 5000) \div 10^4 + 500) \div 10^3

\* long division: q is the quotient so far, r the remainder, n the digits left;
\* the result is twice the quotient, plus 1 when the remainder is at least b/2
RECURSIVE DivDigits(_, _, _, _)
DivDigits(q, r, b, n) ==
    IF n = 0
    THEN 2 * q + (IF 2 * r >= b THEN 1 ELSE 0)
    ELSE DivDigits(q * 10 + (r * 10) \div b, (r * 10) % b, b, n - 1)

\* a / b for two floats a >= 0, b > 0, rounded down
FDivFloor(a, b) == DivDigits(a \div b, a % b, b, 7) \div 2

\* a / b for two floats a >= 0, b > 0, rounded to the nearest representable value
FDiv(a, b) == (DivDigits(a \div b, a % b, b, 7) + 1) \div 2

\* Newton's iteration for the square root, from a start x above the root
RECURSIVE SqrtIter(_, _)
SqrtIter(a, x) ==
    LET y == (x + FDivFloor(a, x)) \div 2
    IN  IF y >= x THEN x ELSE SqrtIter(a, y)

\* sqrt(a) for a float a >= 0, rounded to the nearest representable value
FSqrt(a) ==
    IF a = 0 THEN 0
    ELSE LET x == SqrtIter(a, IF a <= Scale THEN Scale
                              ELSE IF a < 10 * Scale THEN a ELSE 10 * Scale)
         IN  IF FDivFloor(a, x) > x THEN x + 1 ELSE x

\* the series z^(2k+1)/(2k+1) + z^(2k+3)/(2k+3) + ... for z = d/m, with
\* t = z^(2k+1) in units of 10^-8
RECURSIVE LnSeries(_, _, _, _)
LnSeries(t, d, m, k) ==
    IF t = 0 THEN 0
    ELSE (2 * t + 2 * k + 1) \div (2 * (2 * k + 1))
         + LnSeries((2 * t * d * d + m * m) \div (2 * m * m), d, m, k + 1)

\* the natural logarithm of p / q for integers p >= q >= 1:
\* ln(p/q) = 2 * atanh((p - q) / (p + q))
Ln(p, q) ==
    LET t0 == ((p - q) * 10^8) \div (p + q)
    IN  (2 * LnSeries(t0, p - q, p + q, 0) + 5) \div 10

\* the float x is k/128, so a double holds it exactly
Exact(x) == x % (Scale \div 2^7) = 0

RECURSIVE BitLength(_)
\* the number of binary digits of the integer i >= 0
BitLength(i) == IF i = 0 THEN 0 ELSE 1 + BitLength(i \div 2)

\* The binary digits of r / Scale, for 0 <= r < Scale, taken one at a time:
\* n is the number of digits the mantissa still takes, started says that its
\* leading 1 has been taken, last is the digit taken last.  The result is the
\* side on which the double lies: 0 when the digits end within the mantissa,
\* and otherwise 1 (above) or -1 (below) by the digits after the mantissa,
\* rounded to nearest, ties to the even mantissa.
RECURSIVE DoubleBits(_, _, _, _)
DoubleBits(r, n, started, last) ==
    IF r = 0 THEN 0
    ELSE LET bit == (2 * r) \div Scale
             rest == (2 * r) % Scale
         IN  IF n = 0
             THEN IF bit = 0 THEN -1
                  ELSE IF rest > 0 THEN 1
                  ELSE IF last = 1 THEN 1 ELSE -1
             ELSE IF bit = 1 \/ started
                  THEN DoubleBits(rest, n - 1, TRUE, bit)
                  ELSE DoubleBits(rest, n, FALSE, last)

\* the side of the decimal x >= 0 on which the double nearest to it lies, the
\* double Python makes of the decimal: 1 above, -1 below, 0 when it is x
DoubleError(x) ==
    LET i == x \div Scale
    IN  DoubleBits(x % Scale, 53 - BitLength(i), i > 0, i % 2)

\* the sides on which a float can lie whose arithmetic is not followed digit
\* by digit
AnyError == {-1, 0, 1}

\* the sides on which a - b can lie for two floats read from decimals:
\* a - 0.0 is a, 0.0 - b is -b, the difference of two floats k/128 is exact
DifferenceError(a, b) ==
    IF b = 0 THEN {DoubleError(a)}
    ELSE IF a = 0 THEN {-DoubleError(b)}
    ELSE IF Exact(a) /\ Exact(b) THEN {0}
    ELSE AnyError

\* round(x, 3): Round4 with one digit less, in the same unit
Round3(x, err) ==
    LET step == 10 * (Scale \div Unit4)
        q == x \div step
        r == x % step
    IN  IF 2 * r # step THEN {10 * (IF 2 * r > step THEN q + 1 ELSE q)}
        ELSE {10 * (IF e = 1 \/ (e = 0 /\ q % 2 = 1) THEN q + 1 ELSE q) : e \in err}

\* Python's round(x, 4) of a float, in units of 0.0001: the values it can give
\* for the float that x stands for, with err the sides of x on which the
\* double can lie.  round rounds the double, correctly.  Off a decimal tie the
\* double rounds as x does.  On a decimal tie a double above x goes up, a
\* double below x goes down, and a double that is x, a tie itself, goes to the
\* even neighbour.
Round4(x, err) ==
    LET step == Scale \div Unit4
        q == x \div step
        r == x % step
    IN  IF 2 * r # step THEN {IF 2 * r > step THEN q + 1 ELSE q}
        ELSE {IF e = 1 \/ (e = 0 /\ q % 2 = 1) THEN q + 1 ELSE q : e \in err}

\* round(x, 4) of a float read from a decimal
RoundInput(x) == Round4(x, {DoubleError(x)})

(* ------------------------------- texts --------------------------------- *)

\* a run of whitespace
Whitespace == " "

\* the words texts are made of
Words == {"a", "Cat", "mat"}

Atoms == Words \cup {Whitespace}

\* candidate identifiers (file names), in name order
Ids == <<"A", "B", "C", "D">>

\* str.lower of one atom
Lower(w) ==
    CASE w = "Cat" -> "cat"
      [] w = "Mat" -> "mat"
      [] OTHER -> w

\* str.split of a text: its whitespace-separated words, in order
Split(text) == SelectSeq(text, LAMBDA w : w # Whitespace)

\* text.split() without lower()
SplitAsWritten(text) == Split(text)

\* text.lower().split()
LowerSplit(text) == LET ws == Split(text) IN [i \in DOMAIN ws |-> Lower(ws[i])]

\* TfidfVectorizer's analyzer: lower-case the document, then keep the matches of
\* the default token pattern, the runs of two or more word characters
Analyze(text) == SelectSeq(LowerSplit(text), LAMBDA w : Len(w) >= 2)

Range(f) == {f[x] : x \in DOMAIN f}

RECURSIVE SumSet(_, _)
\* the sum of f[x] over the x of set S
SumSet(f, S) ==
    IF S = {} THEN 0
    ELSE LET x == CHOOSE y \in S : TRUE IN f[x] + SumSet(f, S \ {x})

\* the sum of the entries of a sequence (np.sum)
SumSeq(q) == SumSet(q, DOMAIN q)

(* ------------------------------- tf-idf -------------------------------- *)

\* the vocabulary fit_transform learns from the documents
Vocabulary(docs) == UNION {Range(Analyze(docs[i])) : i \in DOMAIN docs}

\* term frequency: occurrences of term t in a document
Tf(doc, t) == LET toks == Analyze(doc) IN Cardinality({i \in DOMAIN toks : toks[i] = t})

\* document frequency: documents that contain term t
Df(docs, t) == Cardinality({i \in DOMAIN docs : t \in Range(Analyze(docs[i]))})

\* smoothed inverse document frequency: ln((1 + n) / (1 + df)) + 1
Idf(docs, t) == Scale + Ln(1 + Len(docs), 1 + Df(docs, t))

\* the squared Euclidean norm of a row
NormSq(row) == SumSet([t \in DOMAIN row |-> FMul(row[t], row[t])], DOMAIN row)

\* sklearn's normalize(norm='l2'): a zero row is left as it is
Normalize(row) ==
    LET n == FSqrt(NormSq(row))
    IN  IF n = 0 THEN row ELSE [t \in DOMAIN row |-> FDiv(row[t], n)]

\* TfidfVectorizer().fit_transform(docs): one l2-normalised tf * idf row per
\* document; defined when the vocabulary is not empty
TfidfMatrix(docs) ==
    LET V == Vocabulary(docs)
        idf == [t \in V |-> Idf(docs, t)]
    IN  [i \in DOMAIN docs |-> Normalize([t \in V |-> Tf(docs[i], t) * idf[t]])]

\* sklearn's cosine_similarity of two rows: normalise both, then the dot product
CosineSimilarity(x, y) ==
    LET nx == Normalize(x)
        ny == Normalize(y)
    IN  SumSet([t \in DOMAIN x |-> FMul(nx[t], ny[t])], DOMAIN x)

\* EmptyVocabulary for a vectorizer that accepts an empty vocabulary
EmptyVocabularyAccepted(docs) == FALSE

\* fit_transform raises ValueError when no document has a token
EmptyVocabulary(docs) == Vocabulary(docs) = {}

ValueError ==
    [type |-> "ValueError",
     msg |-> "empty vocabulary; perhaps the documents only contain stop words"]

(* ------------------------- the three sub-scores ------------------------ *)

\* list(texts.values())
Values(m) == [i \in DOMAIN m |-> m[i].text]

\* texts.keys()
Keys(m) == [i \in DOMAIN m |-> m[i].id]

\* x / d for a float x of either sign and an integer d > 0
DivInt(x, d) == (2 * x + d) \div (2 * d)

\* AvgSimilarity with the candidate itself left in the mean
AvgSimilarityWithSelf(similarities) == DivInt(SumSeq(similarities), Len(similarities))

\* line 25: the mean similarity to the others, from one row of similarities
AvgSimilarity(similarities) ==
    IF Len(similarities) > 1
    THEN DivInt(SumSeq(similarities) - Scale, Len(similarities) - 1)
    ELSE 0

\* calculate_consensus_similarity with the prompt put into the vector space
calculate_consensus_similarity_with_prompt(m) ==
    LET tfidf_matrix == TfidfMatrix(<<prompt>> \o Values(m))
        sims(i) == [j \in DOMAIN m |->
                        CosineSimilarity(tfidf_matrix[i + 1], tfidf_matrix[j + 1])]
    IN  [f \in Range(Keys(m)) |->
            LET i == CHOOSE k \in DOMAIN m : m[k].id = f IN AvgSimilarity(sims(i))]

\* calculate_consensus_similarity, when fit_transform does not raise
calculate_consensus_similarity(m) ==
    LET tfidf_matrix == TfidfMatrix(Values(m))
        sims(i) == [j \in DOMAIN m |-> CosineSimilarity(tfidf_matrix[i], tfidf_matrix[j])]
    IN  [f \in Range(Keys(m)) |->
            LET i == CHOOSE k \in DOMAIN m : m[k].id = f IN AvgSimilarity(sims(i))]

\* calculate_prompt_similarity that takes candidate i from row i of the matrix
calculate_prompt_similarity_off_by_one(p, m) ==
    LET tfidf_matrix == TfidfMatrix(<<p>> \o Values(m))
    IN  [f \in Range(Keys(m)) |->
            LET i == CHOOSE k \in DOMAIN m : m[k].id = f
            IN  CosineSimilarity(tfidf_matrix[1], tfidf_matrix[i])]

\* calculate_prompt_similarity, when fit_transform does not raise
calculate_prompt_similarity(p, m) ==
    LET tfidf_matrix == TfidfMatrix(<<p>> \o Values(m))
    IN  [f \in Range(Keys(m)) |->
            LET i == CHOOSE k \in DOMAIN m : m[k].id = f
            IN  CosineSimilarity(tfidf_matrix[1], tfidf_matrix[i + 1])]

\* the word pairs of a word list taken with stride 2
BigramsDisjoint(words) ==
    [i \in 1..(Len(words) \div 2) |-> <<words[2 * i - 1], words[2 * i]>>]

\* line 53: the adjacent word pairs of a word list
Bigrams(words) == [i \in 1..(Len(words) - 1) |-> <<words[i], words[i + 1]>>]

\* calculate_repetition_rate with a short text counted as fully repetitive
calculate_repetition_rate_short_is_one(text) ==
    LET words == LowerSplit(text)
        bigrams == Bigrams(words)
    IN  IF Len(words) < 2 THEN Scale
        ELSE Scale - FDiv(Cardinality(Range(bigrams)) * Scale, Len(bigrams) * Scale)

calculate_repetition_rate(text) ==
    LET words == LowerSplit(text)
        bigrams == Bigrams(words)
    IN  IF Len(words) < 2 THEN 0
        ELSE IF Len(bigrams) = 0 THEN 0
        ELSE Scale - FDiv(Cardinality(Range(bigrams)) * Scale, Len(bigrams) * Scale)

(* --------------------------- calculate_metrics ------------------------- *)

\* the weights of lines 73-75, in tenths
WeightConsensus == 4
WeightPrompt == 3
WeightRepetition == 3

\* WeightedScore with the weights of the consensus and the prompt term swapped
WeightedScoreSwapped(c, p, w) ==
    (WeightPrompt * c + WeightConsensus * p + WeightRepetition * w + 5) \div 10

\* lines 72-76: the weighted sum of the three unrounded sub-scores
WeightedScore(c, p, w) ==
    (WeightConsensus * c + WeightPrompt * p + WeightRepetition * w + 5) \div 10

\* lines 69-84: the records round can give for the candidate [id, text], from
\* the two score maps.  The similarities and the weighted sum carry the
\* rounding errors of their arithmetic; 1 - repetition_rate is exact when the
\* quotient of line 55 is k/128.
Record(cand, cs, ps) ==
    LET repetition_rate == calculate_repetition_rate(cand.text)
        w_rep_inv == Scale - repetition_rate
    IN  {[model_name |-> cand.id,
          consensus_similarity |-> c,
          prompt_similarity |-> p,
          w_rep_inv |-> w,
          final_consensus_score |-> f] :
            c \in Round4(cs[cand.id], AnyError),
            p \in Round4(ps[cand.id], AnyError),
            w \in Round4(w_rep_inv, IF Exact(w_rep_inv) THEN {0} ELSE AnyError),
            f \in Round4(WeightedScore(cs[cand.id], ps[cand.id], w_rep_inv), AnyError)}

\* AppendRecord that keeps only the newest record
AppendRecordOverwrite(rs, rec) == <<rec>>

\* AppendRecord that puts the record at the front of the list
AppendRecordFront(rs, rec) == <<rec>> \o rs

\* line 78: results.append(record)
AppendRecord(rs, rec) == Append(rs, rec)

RECURSIVE InsertDesc(_, _)
\* the sorted list rows with rec put after every row that scores at least as much
InsertDesc(rows, rec) ==
    IF rows = <<>> THEN <<rec>>
    ELSE IF Head(rows).final_consensus_score >= rec.final_consensus_score
         THEN <<Head(rows)>> \o InsertDesc(Tail(rows), rec)
         ELSE <<rec>> \o rows

RECURSIVE SortDesc(_)
\* line 118: df.sort_values('final_consensus_score', ascending=False)
SortDesc(rows) ==
    IF rows = <<>> THEN <<>>
    ELSE InsertDesc(SortDesc(SubSeq(rows, 1, Len(rows) - 1)), rows[Len(rows)])

NoError == [type |-> "none", msg |-> ""]

NoFile == [written |-> FALSE, rows |-> <<>>]

\* no earlier call
NoCall == [called |-> FALSE, prompt |-> <<>>, results |-> <<>>]

\* line 68: the for loop has taken every item of texts.items()
LoopDoneAfterFirst(n, m) == n >= 1 \/ n = Len(m)

LoopDone(n, m) == n = Len(m)

\* line 32: [prompt] + list(texts.values()) is a new list, so the mapping the
\* caller passed keeps its items
MappingWithPrompt(p, m) == <<[id |-> "prompt", text |-> p]>> \o m

MappingAfterLine32(p, m) == m

(* ------------------------------- inputs -------------------------------- *)

\* every text of at most n atoms: the empty string, the whitespace-only string
\* and the texts made of words
TextsUpTo(n) ==
    UNION {[1..k -> Words] : k \in 0..n} \cup (IF n >= 1 THEN {<<Whitespace>>} ELSE {})

RECURSIVE TextSeqs(_, _)
\* every sequence of n texts with at most budget atoms in all
TextSeqs(n, budget) ==
    IF n = 0 THEN {<<>>}
    ELSE UNION {{<<t>> \o rest : rest \in TextSeqs(n - 1, budget - Len(t))} :
                t \in TextsUpTo(budget)}

\* the key orders of a mapping of n candidates: name order and its reverse
KeyOrders(n) == {[k \in 1..n |-> Ids[k]], [k \in 1..n |-> Ids[n + 1 - k]]}

\* the prompts and candidate mappings the model runs on
Inputs ==
    UNION {{[prompt |-> ts[1],
             texts |-> [k \in 1..n |-> [id |-> order[k], text |-> ts[k + 1]]]] :
            ts \in TextSeqs(n + 1, MaxTotalWords), order \in KeyOrders(n)} :
           n \in 0..MaxCands}

\* the words of the texts calculate_repetition_rate is called on directly
RepWords == Words \cup {"cat"}

\* the texts calculate_repetition_rate is called on directly
RepTexts == UNION {[1..k -> RepWords] : k \in 0..MaxRepWords}

\* no direct call of calculate_repetition_rate
RepIdle == rep_pc = "idle" /\ rep_text = <<>> /\ rep_rate = 0

\* calculate_metrics and main are not running
EnsembleIdle ==
    /\ prompt = <<>>
    /\ texts = <<>>
    /\ pc = "idle"
    /\ caller = "none"
    /\ consensus_scores = <<>>
    /\ prompt_scores = <<>>
    /\ results = <<>>
    /\ idx = 0
    /\ error = NoError
    /\ csv = NoFile
    /\ prev = NoCall

(* ------------------ the values of the scoring scripts ------------------ *)

None == "None"

\* the calibrated scoring spec the service returns
CalibratedSpec == "calibrated_scoring_spec"

\* the scoring spec pi_labs_scorer builds in score_with_pi
ScoringSpec == "scoring_spec"

Scripts == {"pi_labs_scorer", "cal_pi_scores"}

\* no file written
NoCsv == [written |-> FALSE, rows |-> <<>>]

\* no scoring script runs
PiIdle ==
    /\ script = "none"
    /\ pi_pc = "idle"
    /\ pi_texts = <<>>
    /\ df_original = <<>>
    /\ calibration = "not_started"
    /\ calibrated_spec = "unset"
    /\ pi_results = <<>>
    /\ pi_i = 0
    /\ attempts = <<>>
    /\ output_csv = NoCsv

\* the labels of the six questions
Labels ==
    {"Realism", "Prompt Adherence", "Clarity", "Factual Consistency", "Completeness",
     "Technical Accuracy"}

\* the scores the service gives: 0.03125 and 0.12345 are decimal ties of
\* round, the first a double holds exactly, the second not
PiScores == {312500, 1234500, 1234567, Scale}

\* the responses of scoring_system.score: a total score and the question
\* scores, of all labels or of none
PiResponses ==
    {[total_score |-> sc, question_scores |-> [l \in L |-> sc]] :
        sc \in PiScores, L \in {Labels, {}}}

\* the exception a call of the service raises
Raises == "raises"

\* no response: the call raised
NoResponse == [total_score |-> 0, question_scores |-> <<>>]

\* what a scoring call does: raise or return a response
ScoreOutcomes ==
    {[raises |-> TRUE, response |-> NoResponse]}
    \cup {[raises |-> FALSE, response |-> r] : r \in PiResponses}

\* dict.get(key, default)
Get(d, key, default) == IF key \in DOMAIN d THEN d[key] ELSE default

\* pi_labs_scorer.py lines 106-115: the rows round can give for one scored text
PiRow(filename, response) ==
    {[model_name |-> filename,
      total_score |-> t,
      realism |-> r,
      prompt_adherence |-> pa,
      clarity |-> cl,
      factual_consistency |-> fc,
      completeness |-> co,
      technical_accuracy |-> ta] :
        t \in RoundInput(response.total_score),
        r \in RoundInput(Get(response.question_scores, "Realism", 0)),
        pa \in RoundInput(Get(response.question_scores, "Prompt Adherence", 0)),
        cl \in RoundInput(Get(response.question_scores, "Clarity", 0)),
        fc \in RoundInput(Get(response.question_scores, "Factual Consistency", 0)),
        co \in RoundInput(Get(response.question_scores, "Completeness", 0)),
        ta \in RoundInput(Get(response.question_scores, "Technical Accuracy", 0))}

\* cal_pi_scores.py lines 198-207: the rows round can give for one text scored
\* with the calibrated spec
CalRow(filename, response) ==
    {[model_name |-> filename,
      calibrated_total_score |-> t,
      calibrated_realism |-> r,
      calibrated_prompt_adherence |-> pa,
      calibrated_clarity |-> cl,
      calibrated_factual_consistency |-> fc,
      calibrated_completeness |-> co,
      calibrated_technical_accuracy |-> ta] :
        t \in RoundInput(response.total_score),
        r \in RoundInput(Get(response.question_scores, "Realism", 0)),
        pa \in RoundInput(Get(response.question_scores, "Prompt Adherence", 0)),
        cl \in RoundInput(Get(response.question_scores, "Clarity", 0)),
        fc \in RoundInput(Get(response.question_scores, "Factual Consistency", 0)),
        co \in RoundInput(Get(response.question_scores, "Completeness", 0)),
        ta \in RoundInput(Get(response.question_scores, "Technical Accuracy", 0))}

\* the exception handler leaves the loop
AfterExceptionBreak(i, n) == n

\* except Exception: ... continue: the loop goes on with the next item
AfterException(i, n) == i + 1

\* main goes on to score even without a calibrated spec
CalibrationFailedNever(spec) == FALSE

\* cal_pi_scores.py line 183: if calibrated_spec is None
CalibrationFailed(spec) == spec = None

RECURSIVE InsertByTotal(_, _)
\* the sorted list rows with rec put after every row that scores at least as much
InsertByTotal(rows, rec) ==
    IF rows = <<>> THEN <<rec>>
    ELSE IF Head(rows).total_score >= rec.total_score
         THEN <<Head(rows)>> \o InsertByTotal(Tail(rows), rec)
         ELSE <<rec>> \o rows

RECURSIVE SortByTotal(_)
\* pi_labs_scorer.py line 127: df.sort_values('total_score', ascending=False)
SortByTotal(rows) ==
    IF rows = <<>> THEN <<>>
    ELSE InsertByTotal(SortByTotal(SubSeq(rows, 1, Len(rows) - 1)), rows[Len(rows)])

RECURSIVE Merge(_, _)
\* cal_pi_scores.py lines 217-220: the inner merge of the original rows with
\* the calibrated rows on model_name (file names are unique on both sides),
\* with the column score_difference
Merge(original, calibrated) ==
    IF original = <<>> THEN <<>>
    ELSE LET o == Head(original)
             match == SelectSeq(calibrated, LAMBDA c : c.model_name = o.model_name)
             joined == [k \in DOMAIN match |->
                           [model_name |-> o.model_name,
                            total_score |-> o.total_score,
                            calibrated |-> match[k],
                            score_difference |->
                                match[k].calibrated_total_score - o.total_score]]
         IN  joined \o Merge(Tail(original), calibrated)

\* the file names of n text files
FileNames(n) == [k \in 1..n |-> Ids[k]]

\* the total score of every row of the original scores CSV
OriginalScore == 5000

\* the original scores CSV: rows for the first m of the files
OriginalFiles(names) ==
    {[k \in 1..m |-> [model_name |-> names[k], total_score |-> OriginalScore]] :
        m \in 0..Len(names)}

(* --------------------- the values of evaluate_answer ------------------- *)

\* an optional value: <<>> is Python's None, <<v>> is the value v
Nothing == <<>>

Some(v) == <<v>>

\* the labels of create_evaluation_scoring_spec, in order
EvalLabels ==
    <<"Rule Adherence - No Invention", "Completeness - Changelog Coverage",
      "Terminology Consistency", "Version Update Accuracy", "Revision Table Quality",
      "Technical Accuracy", "Breaking Changes Handling", "Professional Quality">>

\* the scores the service gives a question or a whole output: 0.0, 0.12345
\* (a decimal tie of round that no double holds) and 1.0
EvalScores == {0, 1234500, Scale}

\* a dict is the sequence of its items [label, score], in insertion order
\* dict.keys()
EvalKeys(d) == [i \in DOMAIN d |-> d[i].label]

\* key in d
HasKey(d, key) == \E i \in DOMAIN d : d[i].label = key

\* d[key], for a key of d
Item(d, key) == d[CHOOSE i \in DOMAIN d : d[i].label = key].score

RECURSIVE Orders(_, _)
\* the sequences of n different elements of S
Orders(S, n) ==
    IF n = 0 THEN {<<>>}
    ELSE UNION {{<<x>> \o rest : rest \in Orders(S \ {x}, n - 1)} : x \in S}

\* the keys of the question scores of a response, in the order of the
\* response: the labels of the spec in its order, or at most MaxEvalKeys of
\* its first MaxEvalKeys labels in any order
EvalKeyOrders ==
    {EvalLabels}
    \cup UNION {Orders({EvalLabels[i] : i \in 1..MaxEvalKeys}, n) : n \in 0..MaxEvalKeys}

\* the dicts score_generated_output and calibrate_and_score return: a total
\* score, a score for the first question of the response and one for its
\* other questions
EvalScoreDicts ==
    {[total_score |-> tot,
      question_scores |->
          [i \in DOMAIN ks |-> [label |-> ks[i], score |-> IF i = 1 THEN first ELSE rest]]] :
        ks \in EvalKeyOrders, tot \in EvalScores, first \in EvalScores, rest \in EvalScores}

\* the ways calibrate_and_score returns None: no initial score (line 71), an
\* exception of start_job, stream, retrieve or the scoring call (line 123), no
\* attribute calibrated_scoring_spec (line 101)
EvalCalibrationFailures ==
    {"initial_score_failed", "start_job_raised", "stream_raised", "retrieve_raised",
     "no_calibrated_scoring_spec", "score_raised"}

\* Python's truth value of an optional number: None and 0.0 are false
TruthyNumber(x) == x # Nothing /\ x[1] # 0

\* lines 190-198: the rows round can give for one criterion, a key of the
\* standard question scores and, after a calibrated scoring, of the calibrated
\* ones
CriterionRow(question_label, standard, calibrated) ==
    LET standard_score == Item(standard.question_scores, question_label)
        calibrated_score ==
            IF calibrated # Nothing
            THEN Some(Item(calibrated[1].question_scores, question_label))
            ELSE Nothing
    IN  {[criterion |-> question_label,
          standard_score |-> s,
          calibrated_score |-> c,
          score_difference |-> d] :
            s \in RoundInput(standard_score),
            c \in IF TruthyNumber(calibrated_score)
                  THEN {Some(v) : v \in RoundInput(calibrated_score[1])}
                  ELSE {Nothing},
            d \in IF TruthyNumber(calibrated_score)
                  THEN {Some(v) : v \in Round4(calibrated_score[1] - standard_score,
                                               DifferenceError(calibrated_score[1],
                                                               standard_score))}
                  ELSE {Nothing}}

\* lines 202-207: the rows round can give for the total scores
TotalRow(standard, calibrated) ==
    {[criterion |-> "TOTAL SCORE",
      standard_score |-> s,
      calibrated_score |-> c,
      score_difference |-> d] :
        s \in RoundInput(standard.total_score),
        c \in IF calibrated # Nothing
              THEN {Some(v) : v \in RoundInput(calibrated[1].total_score)}
              ELSE {Nothing},
        d \in IF calibrated # Nothing
              THEN {Some(v) : v \in Round4(calibrated[1].total_score - standard.total_score,
                                           DifferenceError(calibrated[1].total_score,
                                                           standard.total_score))}
              ELSE {Nothing}}

\* evaluate_answer.main does not run
EvalIdle ==
    /\ ev_pc = "idle"
    /\ standard_scores = Nothing
    /\ calibrated_scores = Nothing
    /\ ev_results = <<>>
    /\ ev_csv = NoCsv

(* --------------------- the values of text_generation ------------------- *)

\* line 269, in tenths
temperatures == <<5, 7, 10, 15>>

\* line 270, in tenths
top_p_values == <<5, 7, 9, 10>>

\* line 271
max_tokens_values == <<2000, 4000, 6000, 8000, 10000>>

\* the model names of lines 293, 305 and 317, in the order of the requests
ModelNames == <<"OpenAI_GPT-4o", "Claude_3.5", "Llama-3.3_70B">>

\* line 276
total_runs == Len(temperatures) * Len(top_p_values) * Len(max_tokens_values) * 3

\* str(x) of the float x, given in tenths: 5 is "0.5", 10 is "1.0"
FormatFloat(tenths) == ToString(tenths \div 10) \o "." \o ToString(tenths % 10)

\* str(n) of the int n
FormatInt(n) == ToString(n)

\* lines 287-291: the params dict, as the list of its items with the values
\* formatted
Params(temp, top_p, max_tok) ==
    <<[k |-> "temp", v |-> Some(FormatFloat(temp))],
      [k |-> "top_p", v |-> Some(FormatFloat(top_p))],
      [k |-> "max_tok", v |-> Some(FormatInt(max_tok))]>>

RECURSIVE Join(_, _)
\* sep.join(strs)
Join(sep, strs) ==
    IF strs = <<>> THEN ""
    ELSE IF Len(strs) = 1 THEN strs[1]
    ELSE strs[1] \o sep \o Join(sep, Tail(strs))

\* ParamStr without the last parameter
ParamStrShort(params) ==
    LET given == SelectSeq(SubSeq(params, 1, Len(params) - 1), LAMBDA kv : kv.v # Nothing)
    IN  Join("_", [j \in DOMAIN given |-> given[j].k \o "-" \o given[j].v[1]])

\* line 72: "_".join(f"{k}-{v}" for k, v in params.items() if v is not None)
ParamStr(params) ==
    LET given == SelectSeq(params, LAMBDA kv : kv.v # Nothing)
    IN  Join("_", [j \in DOMAIN given |-> given[j].k \o "-" \o given[j].v[1]])

\* line 73: os.path.join(directory, f"{model_name}_{param_str}.txt")
Filename(model_name, params) ==
    "outputs" \o "/" \o model_name \o "_" \o ParamStr(params) \o ".txt"

\* what a request can do: return a text, return an empty text, return no
\* content (None), raise
RequestOutcomes == {"text", "empty", "none", "raises"}

\* the services answer every request with a text
NoFault == [model |-> "no model", kind |-> "text", param |-> "temp", value |-> 0]

\* the behaviours of the services: all requests succeed, or the requests to
\* one model with one value of one parameter all fail in one way
Services ==
    {NoFault}
    \cup {[model |-> m, kind |-> kind, param |-> "temp", value |-> v] :
             m \in Range(ModelNames), kind \in RequestOutcomes \ {"text"},
             v \in Range(temperatures)}
    \cup {[model |-> m, kind |-> kind, param |-> "top_p", value |-> v] :
             m \in Range(ModelNames), kind \in RequestOutcomes \ {"text"},
             v \in Range(top_p_values)}
    \cup {[model |-> m, kind |-> kind, param |-> "max_tok", value |-> v] :
             m \in Range(ModelNames), kind \in RequestOutcomes \ {"text"},
             v \in Range(max_tokens_values)}

\* what the request of a model with the given parameters does
Outcome(svc, model_name, temp, top_p, max_tok) ==
    LET value == CASE svc.param = "temp" -> temp
                   [] svc.param = "top_p" -> top_p
                   [] OTHER -> max_tok
    IN  IF svc.model = model_name /\ svc.value = value THEN svc.kind ELSE "text"

\* no query function catches an exception
CatchesNothing(model_name) == FALSE

\* lines 49-60: only query_llama wraps its request in try/except Exception
Catches(model_name) == model_name = "Llama-3.3_70B"

\* the output a query function returns for an outcome that does not end
\* the program: the text, "" or None
OutputOf(outcome) ==
    CASE outcome = "text" -> Some("text")
      [] outcome = "empty" -> Some("")
      [] OTHER -> Nothing

\* line 78: the truth value of output: None and "" are false
TruthyOutput(output) == output # Nothing /\ output[1] # ""

\* lines 78-80: the files after print_and_save(model_name, params, output) of
\* the given run
Save(fs, model_name, params, output, run) ==
    LET filename == Filename(model_name, params)
    IN  IF TruthyOutput(output)
        THEN IF filename \in DOMAIN fs
             THEN [fs EXCEPT ![filename] = Append(@, run)]
             ELSE [f \in DOMAIN fs \cup {filename} |->
                      IF f = filename THEN <<run>> ELSE fs[f]]
        ELSE fs

\* the loops with the inner positions not set back to the start
AdvanceNoReset(ti, pi, mi) ==
    IF mi < Len(max_tokens_values)
    THEN [temp_i |-> ti, top_p_i |-> pi, max_tok_i |-> mi + 1, done |-> FALSE]
    ELSE IF pi < Len(top_p_values)
    THEN [temp_i |-> ti, top_p_i |-> pi + 1, max_tok_i |-> mi, done |-> FALSE]
    ELSE IF ti < Len(temperatures)
    THEN [temp_i |-> ti + 1, top_p_i |-> pi, max_tok_i |-> mi, done |-> FALSE]
    ELSE [temp_i |-> ti, top_p_i |-> pi, max_tok_i |-> mi, done |-> TRUE]

\* lines 280-282: the positions of the three nested for loops after the body
\* has run at positions ti, pi, mi, and whether the loops are exhausted
Advance(ti, pi, mi) ==
    IF mi < Len(max_tokens_values)
    THEN [temp_i |-> ti, top_p_i |-> pi, max_tok_i |-> mi + 1, done |-> FALSE]
    ELSE IF pi < Len(top_p_values)
    THEN [temp_i |-> ti, top_p_i |-> pi + 1, max_tok_i |-> 1, done |-> FALSE]
    ELSE IF ti < Len(temperatures)
    THEN [temp_i |-> ti + 1, top_p_i |-> 1, max_tok_i |-> 1, done |-> FALSE]
    ELSE [temp_i |-> ti, top_p_i |-> pi, max_tok_i |-> mi, done |-> TRUE]

\* the grid search does not run
GridIdle ==
    /\ grid_pc = "idle"
    /\ temp_i = 0
    /\ top_p_i = 0
    /\ max_tok_i = 0
    /\ current_run = 0
    /\ runs = <<>>
    /\ files = <<>>
    /\ service = NoFault

(* --------------------- the values of create_quadrants ------------------ *)

\* the scores of the CSV files: 0.3 and 0.3000001, whose mean is no multiple
\* of the fixed-point unit
QuadScores == {3 * (Scale \div 10), 3 * (Scale \div 10) + 1}

\* the rows of a frame merged from the original PI scores
OriginalRows(n) ==
    [1..n -> {[model_name |-> "m", total_score |-> ts, final_consensus_score |-> fs] :
                 ts \in QuadScores, fs \in QuadScores}]

\* the rows of a frame merged from the calibrated PI scores
CalibratedRows(n) ==
    [1..n -> {[model_name |-> "m", total_score |-> ts, calibrated_total_score |-> cs,
               final_consensus_score |-> fs] :
                 ts \in QuadScores, cs \in QuadScores, fs \in QuadScores}]

\* the merged frames analyze_quadrants is called on; the k-th row is the k-th
\* model
Frames ==
    UNION {{[k \in 1..n |-> [rows[k] EXCEPT !.model_name = Ids[k]]] :
               rows \in OriginalRows(n) \cup CalibratedRows(n)} : n \in 1..MaxQuadRows}

\* the column of a frame
Column(frame, col) == [k \in DOMAIN frame |-> frame[k][col]]

RECURSIVE InsertAsc(_, _)
\* the ascending list xs with x put in its place
InsertAsc(xs, x) ==
    IF xs = <<>> THEN <<x>>
    ELSE IF Head(xs) <= x THEN <<Head(xs)>> \o InsertAsc(Tail(xs), x)
    ELSE <<x>> \o xs

RECURSIVE SortAsc(_)
\* the values in ascending order
SortAsc(xs) == IF xs = <<>> THEN <<>> ELSE InsertAsc(SortAsc(Tail(xs)), Head(xs))

\* Series.median(): the middle value in ascending order, or the mean of the
\* two middle values.  The median is held in half units (1.0 is 2 * Scale),
\* in which the mean of two floats is an integer: it is the sum of the two.
\* The double mean of two different floats of the model lies strictly between
\* them, as their sum lies strictly between the doubled floats.
Median(xs) ==
    LET sorted == SortAsc(xs)
        n == Len(xs)
    IN  IF n % 2 = 1 THEN 2 * sorted[(n + 1) \div 2]
        ELSE sorted[n \div 2] + sorted[(n \div 2) + 1]

\* line 33: the PI score column of a frame
PiColumn(frame) ==
    IF "calibrated_total_score" \in DOMAIN frame[1]
    THEN "calibrated_total_score" ELSE "total_score"

\* the PI score of a row taken from total_score in every frame
RowPiScoreOriginal(row) == row["total_score"]

\* line 17: the PI score of a row
RowPiScore(row) ==
    IF "calibrated_total_score" \in DOMAIN row
    THEN row["calibrated_total_score"] ELSE row["total_score"]

\* lines 15-27: classify_quadrant(row, pi_median, consensus_median), with the
\* scores of the row in units and the two medians in half units
classify_quadrant(row, pm, cm) ==
    LET pi_score == 2 * RowPiScore(row)
        consensus_score == 2 * row["final_consensus_score"]
    IN  IF pi_score >= pm /\ consensus_score >= cm
        THEN "Goldilocks (High PI + High Consensus)"
        ELSE IF pi_score >= pm /\ consensus_score < cm
        THEN "Creative Excellence (High PI + Low Consensus)"
        ELSE IF pi_score < pm /\ consensus_score >= cm
        THEN "Safe Consensus (Low PI + High Consensus)"
        ELSE "Avoid (Low PI + Low Consensus)"

\* analyze_quadrants does not run
QuadIdle ==
    /\ quad_pc = "idle"
    /\ df = <<>>
    /\ pi_col = ""
    /\ pi_median = 0
    /\ consensus_median = 0
    /\ quadrant = <<>>

\* none of the other scripts runs
ScriptsIdle == EvalIdle /\ GridIdle /\ QuadIdle

(* ------------------------------- actions ------------------------------- *)

Init ==
    /\ \E in \in Inputs : prompt = in.prompt /\ texts = in.texts
    /\ pc = "idle"
    /\ caller = "none"
    /\ consensus_scores = <<>>
    /\ prompt_scores = <<>>
    /\ results = <<>>
    /\ idx = 0
    /\ error = NoError
    /\ csv = NoFile
    /\ prev = NoCall
    /\ RepIdle
    /\ PiIdle
    /\ ScriptsIdle

\* main, lines 97-114: with no text file it prints a message and returns,
\* otherwise it calls calculate_metrics
Main ==
    /\ pc = "idle"
    /\ caller' = "main"
    /\ pc' = IF Len(texts) = 0 THEN "done" ELSE "l64"
    /\ UNCHANGED <<prompt, texts, consensus_scores, prompt_scores, results, idx, error, csv>>
    /\ UNCHANGED otherVars

\* a direct call of calculate_metrics(prompt, texts)
Call ==
    /\ pc = "idle"
    /\ caller' = "api"
    /\ pc' = "l64"
    /\ UNCHANGED <<prompt, texts, consensus_scores, prompt_scores, results, idx, error, csv>>
    /\ UNCHANGED otherVars

\* line 64: consensus_scores = calculate_consensus_similarity(texts)
Consensus ==
    /\ pc = "l64"
    /\ IF EmptyVocabulary(Values(texts))
       THEN /\ pc' = "raised"
            /\ error' = ValueError
            /\ UNCHANGED consensus_scores
       ELSE /\ pc' = "l65"
            /\ consensus_scores' = calculate_consensus_similarity(texts)
            /\ UNCHANGED error
    /\ UNCHANGED <<caller, prompt, texts, prompt_scores, results, idx, csv>>
    /\ UNCHANGED otherVars

\* lines 65-67: prompt_scores = calculate_prompt_similarity(prompt, texts); results = []
PromptSimilarity ==
    /\ pc = "l65"
    /\ IF EmptyVocabulary(<<prompt>> \o Values(texts))
       THEN /\ pc' = "raised"
            /\ error' = ValueError
            /\ UNCHANGED <<prompt_scores, results, idx, texts>>
       ELSE /\ pc' = "loop"
            /\ prompt_scores' = calculate_prompt_similarity(prompt, texts)
            /\ texts' = MappingAfterLine32(prompt, texts)
            /\ results' = <<>>
            /\ idx' = 0
            /\ UNCHANGED error
    /\ UNCHANGED <<caller, prompt, consensus_scores, csv>>
    /\ UNCHANGED otherVars

\* lines 68-84: one pass of the loop over texts.items()
Loop ==
    /\ pc = "loop"
    /\ ~LoopDone(idx, texts)
    /\ idx' = idx + 1
    /\ \E record \in Record(texts[idx + 1], consensus_scores, prompt_scores) :
           results' = AppendRecord(results, record)
    /\ UNCHANGED <<pc, caller, prompt, texts, consensus_scores, prompt_scores, error, csv>>
    /\ UNCHANGED otherVars

\* line 86: return results
Return ==
    /\ pc = "loop"
    /\ LoopDone(idx, texts)
    /\ pc' = "returned"
    /\ UNCHANGED <<caller, prompt, texts, consensus_scores, prompt_scores, results, idx, error, csv>>
    /\ UNCHANGED otherVars

\* main, lines 117-119: sort the records by final score, highest first, and save
MainSave ==
    /\ pc = "returned"
    /\ caller = "main"
    /\ csv' = [written |-> TRUE, rows |-> SortDesc(results)]
    /\ pc' = "done"
    /\ UNCHANGED <<caller, prompt, texts, consensus_scores, prompt_scores, results, idx, error>>
    /\ UNCHANGED otherVars

Next ==
    \/ Main
    \/ Call
    \/ Consensus
    \/ PromptSimilarity
    \/ Loop
    \/ Return
    \/ MainSave

Spec == Init /\ [][Next]_vars

(* ------------- calculate_metrics called twice on one mapping ----------- *)

\* the prompts of the second call: the empty one, blanks, and the single words
OtherPrompts == {<<>>, <<Whitespace>>} \cup {<<w>> : w \in Words}

\* a second call calculate_metrics(prompt2, texts) with another prompt, after
\* the first call returned; the first call's list is kept for comparison
CallAgain ==
    /\ pc = "returned"
    /\ caller = "api"
    /\ ~prev.called
    /\ prev' = [called |-> TRUE, prompt |-> prompt, results |-> results]
    /\ prompt' \in OtherPrompts \ {prompt}
    /\ pc' = "l64"
    /\ consensus_scores' = <<>>
    /\ prompt_scores' = <<>>
    /\ results' = <<>>
    /\ idx' = 0
    /\ UNCHANGED <<caller, texts, error, csv, rep_pc, rep_text, rep_rate, piVars, scriptVars>>

\* the first call: any prompt, any mapping with its keys in name order
InitPrompts ==
    /\ Init
    /\ \A k \in DOMAIN texts : texts[k].id = Ids[k]

NextPrompts ==
    \/ Call
    \/ Consensus
    \/ PromptSimilarity
    \/ Loop
    \/ Return
    \/ CallAgain

SpecPrompts == InitPrompts /\ [][NextPrompts]_vars

(* ---------- calculate_metrics on two identical texts and a third -------- *)

\* the vocabulary terms of one text
Terms(text) == Range(Analyze(text))

\* texts t, u and prompt p such that t and u share no term and p shares a term
\* with t and none with u
Scenario(p, t, u) ==
    /\ Terms(t) \cap Terms(u) = {}
    /\ Terms(p) \cap Terms(t) # {}
    /\ Terms(p) \cap Terms(u) = {}

\* the mapping {"A": t, "B": t, "C": u}
ScenarioTexts(t, u) ==
    <<[id |-> "A", text |-> t], [id |-> "B", text |-> t], [id |-> "C", text |-> u]>>

InitScenario ==
    /\ \E p \in TextsUpTo(MaxScenarioWords), t \in TextsUpTo(MaxScenarioWords),
          u \in TextsUpTo(MaxScenarioWords) :
           /\ Scenario(p, t, u)
           /\ prompt = p
           /\ texts = ScenarioTexts(t, u)
    /\ pc = "idle"
    /\ caller = "none"
    /\ consensus_scores = <<>>
    /\ prompt_scores = <<>>
    /\ results = <<>>
    /\ idx = 0
    /\ error = NoError
    /\ csv = NoFile
    /\ prev = NoCall
    /\ RepIdle
    /\ PiIdle
    /\ ScriptsIdle

SpecScenario == InitScenario /\ [][Next]_vars

(* ------------- pi_labs_scorer.main and cal_pi_scores.main -------------- *)

InitPi ==
    /\ EnsembleIdle
    /\ RepIdle
    /\ ScriptsIdle
    /\ script \in Scripts
    /\ pi_pc = "main"
    /\ pi_texts \in {FileNames(n) : n \in 0..MaxPiTexts}
    /\ df_original \in (IF script = "cal_pi_scores" THEN OriginalFiles(pi_texts) ELSE {<<>>})
    /\ calibration = "not_started"
    /\ calibrated_spec = "unset"
    /\ pi_results = <<>>
    /\ pi_i = 0
    /\ attempts = <<>>
    /\ output_csv = NoCsv

\* pi_labs_scorer.py lines 88-97: main returns when there is no text, else
\* starts the scoring loop with results = []
PiMain ==
    /\ script = "pi_labs_scorer"
    /\ pi_pc = "main"
    /\ pi_pc' = IF Len(pi_texts) = 0 THEN "done" ELSE "loop"
    /\ pi_results' = <<>>
    /\ pi_i' = 0
    /\ UNCHANGED <<script, pi_texts, df_original, calibration, calibrated_spec, attempts,
                   output_csv>>
    /\ UNCHANGED <<ensembleVars, prev, rep_pc, rep_text, rep_rate, scriptVars>>

\* cal_pi_scores.py lines 159-181: main returns when there is no text, else
\* loads the original scores and calls calibrate_scoring_system
CalMain ==
    /\ script = "cal_pi_scores"
    /\ pi_pc = "main"
    /\ pi_pc' = IF Len(pi_texts) = 0 THEN "done" ELSE "start_job"
    /\ UNCHANGED <<script, pi_texts, df_original, calibration, calibrated_spec, pi_results,
                   pi_i, attempts, output_csv>>
    /\ UNCHANGED <<ensembleVars, prev, rep_pc, rep_text, rep_rate, scriptVars>>

\* cal_pi_scores.py lines 73-78 and 105-109: start_job starts the job, or
\* raises and calibrate_scoring_system returns None
CalStartJob ==
    /\ pi_pc = "start_job"
    /\ \E outcome \in {Raises, "started"} :
           IF outcome = Raises
           THEN /\ calibration' = "start_job_raised"
                /\ calibrated_spec' = None
                /\ pi_pc' = "l183"
           ELSE /\ calibration' = "started"
                /\ pi_pc' = "stream"
                /\ UNCHANGED calibrated_spec
    /\ UNCHANGED <<script, pi_texts, df_original, pi_results, pi_i, attempts, output_csv>>
    /\ UNCHANGED <<ensembleVars, prev, rep_pc, rep_text, rep_rate, scriptVars>>

\* lines 85-87 and 105-109: the progress stream ends, or raises
CalStream ==
    /\ pi_pc = "stream"
    /\ \E outcome \in {Raises, "streamed"} :
           IF outcome = Raises
           THEN /\ calibration' = "stream_raised"
                /\ calibrated_spec' = None
                /\ pi_pc' = "l183"
           ELSE /\ calibration' = "streamed"
                /\ pi_pc' = "retrieve"
                /\ UNCHANGED calibrated_spec
    /\ UNCHANGED <<script, pi_texts, df_original, pi_results, pi_i, attempts, output_csv>>
    /\ UNCHANGED <<ensembleVars, prev, rep_pc, rep_text, rep_rate, scriptVars>>

\* lines 92-109: retrieve raises, or returns a result without the attribute
\* calibrated_scoring_spec, or with it: None or a spec
CalRetrieve ==
    /\ pi_pc = "retrieve"
    /\ \E outcome \in {Raises, "no_attribute", None, CalibratedSpec} :
           /\ calibration' =
                  CASE outcome = Raises -> "retrieve_raised"
                    [] outcome = "no_attribute" -> "no_calibrated_scoring_spec"
                    [] outcome = None -> "retrieved_none"
                    [] OTHER -> "retrieved"
           /\ calibrated_spec' = IF outcome = CalibratedSpec THEN CalibratedSpec ELSE None
    /\ pi_pc' = "l183"
    /\ UNCHANGED <<script, pi_texts, df_original, pi_results, pi_i, attempts, output_csv>>
    /\ UNCHANGED <<ensembleVars, prev, rep_pc, rep_text, rep_rate, scriptVars>>

\* cal_pi_scores.py lines 183-189: main returns when calibration failed, else
\* starts the scoring loop with calibrated_results = []
CalCheck ==
    /\ pi_pc = "l183"
    /\ pi_pc' = IF CalibrationFailed(calibrated_spec) THEN "done" ELSE "loop"
    /\ pi_results' = <<>>
    /\ pi_i' = 0
    /\ UNCHANGED <<script, pi_texts, df_original, calibration, calibrated_spec, attempts,
                   output_csv>>
    /\ UNCHANGED <<ensembleVars, prev, rep_pc, rep_text, rep_rate, scriptVars>>

\* pi_labs_scorer.py lines 100-122, cal_pi_scores.py lines 191-211: one
\* iteration of the scoring loop; the call raises and the text is skipped, or
\* it returns a response and the row is appended
ScoreText ==
    /\ pi_pc = "loop"
    /\ pi_i < Len(pi_texts)
    /\ LET filename == pi_texts[pi_i + 1]
           spec == IF script = "cal_pi_scores" THEN calibrated_spec ELSE ScoringSpec
       IN  \E outcome \in ScoreOutcomes :
               /\ attempts' = Append(attempts, [filename |-> filename, spec |-> spec,
                                                ok |-> ~outcome.raises])
               /\ IF outcome.raises
                  THEN /\ pi_i' = AfterException(pi_i, Len(pi_texts))
                       /\ UNCHANGED pi_results
                  ELSE /\ pi_i' = pi_i + 1
                       /\ \E row \in IF script = "cal_pi_scores"
                                      THEN CalRow(filename, outcome.response)
                                      ELSE PiRow(filename, outcome.response) :
                              pi_results' = Append(pi_results, row)
    /\ UNCHANGED <<script, pi_pc, pi_texts, df_original, calibration, calibrated_spec,
                   output_csv>>
    /\ UNCHANGED <<ensembleVars, prev, rep_pc, rep_text, rep_rate, scriptVars>>

\* pi_labs_scorer.py lines 125-134: after the loop, the rows are sorted by
\* total score and saved, unless there is none
PiSave ==
    /\ script = "pi_labs_scorer"
    /\ pi_pc = "loop"
    /\ pi_i >= Len(pi_texts)
    /\ output_csv' = IF pi_results # <<>>
                     THEN [written |-> TRUE, rows |-> SortByTotal(pi_results)]
                     ELSE output_csv
    /\ pi_pc' = "done"
    /\ UNCHANGED <<script, pi_texts, df_original, calibration, calibrated_spec, pi_results,
                   pi_i, attempts>>
    /\ UNCHANGED <<ensembleVars, prev, rep_pc, rep_text, rep_rate, scriptVars>>

\* cal_pi_scores.py lines 215-223: after the loop, the calibrated rows are
\* merged with the original rows and saved; with no calibrated row the frame
\* has no column model_name and pd.merge raises KeyError
CalSave ==
    /\ script = "cal_pi_scores"
    /\ pi_pc = "loop"
    /\ pi_i >= Len(pi_texts)
    /\ IF pi_results = <<>>
       THEN /\ pi_pc' = "raised"
            /\ UNCHANGED output_csv
       ELSE /\ pi_pc' = "done"
            /\ output_csv' = [written |-> TRUE, rows |-> Merge(df_original, pi_results)]
    /\ UNCHANGED <<script, pi_texts, df_original, calibration, calibrated_spec, pi_results,
                   pi_i, attempts>>
    /\ UNCHANGED <<ensembleVars, prev, rep_pc, rep_text, rep_rate, scriptVars>>

NextPi ==
    \/ PiMain
    \/ CalMain
    \/ CalStartJob
    \/ CalStream
    \/ CalRetrieve
    \/ CalCheck
    \/ ScoreText
    \/ PiSave
    \/ CalSave

SpecPi == InitPi /\ [][NextPi]_vars

(* ------------------------ evaluate_answer.main ------------------------- *)

InitEval ==
    /\ EnsembleIdle
    /\ RepIdle
    /\ PiIdle
    /\ GridIdle
    /\ QuadIdle
    /\ ev_pc = "l170"
    /\ standard_scores = Nothing
    /\ calibrated_scores = Nothing
    /\ ev_results = <<>>
    /\ ev_csv = NoCsv

\* lines 170-176: the standard scoring returns a dict, or None after an
\* exception and main returns
EvalStandard ==
    /\ ev_pc = "l170"
    /\ \E outcome \in {Nothing} \cup {Some(d) : d \in EvalScoreDicts} :
           /\ standard_scores' = outcome
           /\ ev_pc' = IF outcome # Nothing THEN "l178" ELSE "returned"
    /\ UNCHANGED <<calibrated_scores, ev_results, ev_csv>>
    /\ UNCHANGED <<ensembleVars, prev, rep_pc, rep_text, rep_rate, piVars, gridVars, quadVars>>

\* lines 178-187: calibrate_and_score returns a dict or None; results = []
EvalCalibrate ==
    /\ ev_pc = "l178"
    /\ \E outcome \in EvalCalibrationFailures \cup {"scored"} :
           IF outcome \in EvalCalibrationFailures
           THEN calibrated_scores' = Nothing
           ELSE \E d \in EvalScoreDicts : calibrated_scores' = Some(d)
    /\ ev_results' = <<>>
    /\ ev_pc' = "loop"
    /\ UNCHANGED <<standard_scores, ev_csv>>
    /\ UNCHANGED <<ensembleVars, prev, rep_pc, rep_text, rep_rate, piVars, gridVars, quadVars>>

\* lines 189-199: one iteration of the loop over the keys of the standard
\* question scores, in their order; line 191 raises KeyError when the
\* calibrated question scores lack the key, and main ends without a file
EvalRow ==
    /\ ev_pc = "loop"
    /\ LET keys == EvalKeys(standard_scores[1].question_scores)
       IN  /\ Len(ev_results) < Len(keys)
           /\ LET question_label == keys[Len(ev_results) + 1]
              IN  IF /\ calibrated_scores # Nothing
                     /\ ~HasKey(calibrated_scores[1].question_scores, question_label)
                  THEN /\ ev_pc' = "raised"
                       /\ UNCHANGED ev_results
                  ELSE /\ \E result \in CriterionRow(question_label, standard_scores[1],
                                                     calibrated_scores) :
                              ev_results' = Append(ev_results, result)
                       /\ UNCHANGED ev_pc
    /\ UNCHANGED <<standard_scores, calibrated_scores, ev_csv>>
    /\ UNCHANGED <<ensembleVars, prev, rep_pc, rep_text, rep_rate, piVars, gridVars, quadVars>>

\* lines 202-210: after the loop the total row is appended and the rows are
\* saved
EvalSave ==
    /\ ev_pc = "loop"
    /\ Len(ev_results) = Len(standard_scores[1].question_scores)
    /\ \E total \in TotalRow(standard_scores[1], calibrated_scores) :
           ev_results' = Append(ev_results, total)
    /\ ev_csv' = [written |-> TRUE, rows |-> ev_results']
    /\ ev_pc' = "done"
    /\ UNCHANGED <<standard_scores, calibrated_scores>>
    /\ UNCHANGED <<ensembleVars, prev, rep_pc, rep_text, rep_rate, piVars, gridVars, quadVars>>

NextEval ==
    \/ EvalStandard
    \/ EvalCalibrate
    \/ EvalRow
    \/ EvalSave

SpecEval == InitEval /\ [][NextEval]_vars

(* ------------------- the grid search of text_generation ---------------- *)

InitGrid ==
    /\ EnsembleIdle
    /\ RepIdle
    /\ PiIdle
    /\ EvalIdle
    /\ QuadIdle
    /\ grid_pc = "openai"
    /\ temp_i = 1
    /\ top_p_i = 1
    /\ max_tok_i = 1
    /\ current_run = 0
    /\ runs = <<>>
    /\ files = <<>>
    /\ service \in Services

\* one request of the loop body: current_run += 1, the query function of the
\* model, print_and_save; an exception the query function does not catch ends
\* the program; after the third request the loops go on
Request(m, here, next) ==
    /\ grid_pc = here
    /\ LET model_name == ModelNames[m]
           temp == temperatures[temp_i]
           top_p == top_p_values[top_p_i]
           max_tok == max_tokens_values[max_tok_i]
           run == current_run + 1
           outcome == Outcome(service, model_name, temp, top_p, max_tok)
           after == Advance(temp_i, top_p_i, max_tok_i)
       IN  /\ current_run' = run
           /\ runs' = Append(runs, [run |-> run, model |-> model_name, temp |-> temp,
                                    top_p |-> top_p, max_tok |-> max_tok,
                                    outcome |-> outcome])
           /\ IF outcome = "raises" /\ ~Catches(model_name)
              THEN /\ grid_pc' = "raised"
                   /\ UNCHANGED <<files, temp_i, top_p_i, max_tok_i>>
              ELSE /\ files' = Save(files, model_name, Params(temp, top_p, max_tok),
                                    OutputOf(outcome), run)
                   /\ IF m < Len(ModelNames)
                      THEN /\ grid_pc' = next
                           /\ UNCHANGED <<temp_i, top_p_i, max_tok_i>>
                      ELSE /\ grid_pc' = IF after.done THEN "done" ELSE next
                           /\ temp_i' = after.temp_i
                           /\ top_p_i' = after.top_p_i
                           /\ max_tok_i' = after.max_tok_i
    /\ UNCHANGED service
    /\ UNCHANGED <<ensembleVars, prev, rep_pc, rep_text, rep_rate, piVars, evalVars, quadVars>>

\* lines 283-293: the request to OpenAI GPT-4o
GridOpenAI == Request(1, "openai", "claude")

\* lines 295-305: the request to Claude
GridClaude == Request(2, "claude", "llama")

\* lines 307-317: the request to Llama, and the step of the loops
GridLlama == Request(3, "llama", "openai")

NextGrid ==
    \/ GridOpenAI
    \/ GridClaude
    \/ GridLlama

SpecGrid == InitGrid /\ [][NextGrid]_vars

(* ------------------ analyze_quadrants of create_quadrants -------------- *)

InitQuad ==
    /\ EnsembleIdle
    /\ RepIdle
    /\ PiIdle
    /\ EvalIdle
    /\ GridIdle
    /\ quad_pc = "l33"
    /\ df \in Frames
    /\ pi_col = ""
    /\ pi_median = 0
    /\ consensus_median = 0
    /\ quadrant = <<>>

\* lines 33-37: the PI column is chosen and the two medians are computed
QuadMedians ==
    /\ quad_pc = "l33"
    /\ pi_col' = PiColumn(df)
    /\ pi_median' = Median(Column(df, pi_col'))
    /\ consensus_median' = Median(Column(df, "final_consensus_score"))
    /\ quad_pc' = "l46"
    /\ UNCHANGED <<df, quadrant>>
    /\ UNCHANGED <<ensembleVars, prev, rep_pc, rep_text, rep_rate, piVars, evalVars, gridVars>>

\* line 46: df.apply calls classify_quadrant on the next row
QuadClassify ==
    /\ quad_pc = "l46"
    /\ Len(quadrant) < Len(df)
    /\ quadrant' = Append(quadrant,
                          classify_quadrant(df[Len(quadrant) + 1], pi_median,
                                            consensus_median))
    /\ UNCHANGED <<quad_pc, df, pi_col, pi_median, consensus_median>>
    /\ UNCHANGED <<ensembleVars, prev, rep_pc, rep_text, rep_rate, piVars, evalVars, gridVars>>

\* lines 46-58: the labels become the column quadrant and the frame is
\* returned
QuadReturn ==
    /\ quad_pc = "l46"
    /\ Len(quadrant) = Len(df)
    /\ df' = [k \in DOMAIN df |->
                 [c \in DOMAIN df[k] \cup {"quadrant"} |->
                     IF c = "quadrant" THEN quadrant[k] ELSE df[k][c]]]
    /\ quad_pc' = "returned"
    /\ UNCHANGED <<pi_col, pi_median, consensus_median, quadrant>>
    /\ UNCHANGED <<ensembleVars, prev, rep_pc, rep_text, rep_rate, piVars, evalVars, gridVars>>

NextQuad ==
    \/ QuadMedians
    \/ QuadClassify
    \/ QuadReturn

SpecQuad == InitQuad /\ [][NextQuad]_vars

(* ------------------ calculate_repetition_rate, called directly --------- *)

InitRep ==
    /\ EnsembleIdle
    /\ PiIdle
    /\ ScriptsIdle
    /\ rep_pc = "called"
    /\ rep_text \in RepTexts
    /\ rep_rate = 0

\* lines 47-60: calculate_repetition_rate(text) runs and returns
RepetitionRate ==
    /\ rep_pc = "called"
    /\ rep_rate' = calculate_repetition_rate(rep_text)
    /\ rep_pc' = "returned"
    /\ UNCHANGED <<rep_text, ensembleVars, prev, piVars, scriptVars>>

NextRep == RepetitionRate

SpecRep == InitRep /\ [][NextRep]_vars

(* ------------------------------- claims -------------------------------- *)

\* calculate_metrics has returned its list to the caller
Returned == pc = "returned" \/ (pc = "done" /\ csv.written)

\* the records made so far exist once line 65 is passed
InLoop == pc = "loop" \/ Returned

\* the candidate of the k-th record
IdAt(k) == texts[k].id

\* |x|
Abs(x) == IF x < 0 THEN -x ELSE x

\* a reported value v (units of 0.0001) is the float x10 / 10 (x10 in units of
\* 10^-8) to 4 decimal digits: they differ by at most 0.00005, plus half a unit
\* of the float representation
EqualTo4Digits(v, x10) == Abs(v * 10^4 - x10) <= 5005

\* C1: whenever calculate_metrics returns, its list has exactly one record per
\* candidate: every candidate id is the model_name of exactly one record and
\* every model_name is a candidate id.
C1_OneRecordPerCandidate ==
    Returned =>
        /\ Len(results) = Len(texts)
        /\ \A k \in DOMAIN texts :
               Cardinality({j \in DOMAIN results : results[j].model_name = IdAt(k)}) = 1
        /\ \A j \in DOMAIN results : results[j].model_name \in Range(Keys(texts))

C1_Witness ==
    /\ Returned
    /\ Len(texts) = 2
    /\ {results[1].model_name, results[2].model_name} = {"A", "B"}

\* C2: every reported final_consensus_score is, to 4 decimal digits,
\* 0.4 * consensus + 0.3 * prompt similarity + 0.3 * (1 - repetition rate) of the
\* unrounded sub-scores of the same candidate; the weights sum to 1.
C2_FinalIsWeightedSum ==
    /\ WeightConsensus = 4 /\ WeightPrompt = 3 /\ WeightRepetition = 3
    /\ WeightConsensus + WeightPrompt + WeightRepetition = 10
    /\ InLoop =>
           \A k \in DOMAIN results :
               EqualTo4Digits(results[k].final_consensus_score,
                              4 * consensus_scores[IdAt(k)]
                              + 3 * prompt_scores[IdAt(k)]
                              + 3 * (Scale - calculate_repetition_rate(texts[k].text)))

\* a returned batch of two with a candidate of fractional consensus similarity
C2_Witness ==
    /\ Returned
    /\ Len(texts) = 2
    /\ \E k \in DOMAIN texts :
           /\ consensus_scores[IdAt(k)] \in 1..(Scale - 1)
           /\ results[k].final_consensus_score > 3000

\* C3 (as claimed): all four reported fields of every record lie in [0, 1].
C3_AllFieldsInUnitInterval ==
    InLoop =>
        \A k \in DOMAIN results :
            /\ results[k].consensus_similarity \in 0..Unit4
            /\ results[k].prompt_similarity \in 0..Unit4
            /\ results[k].w_rep_inv \in 0..Unit4
            /\ results[k].final_consensus_score \in 0..Unit4

\* C4: with an empty candidate mapping calculate_metrics raises ValueError at
\* line 64 and returns nothing; main does not call it at all.
C4_EmptyMappingRaises ==
    Len(texts) = 0 =>
        /\ pc \in {"idle", "l64", "raised", "done"}
        /\ pc = "l64" => caller = "api"
        /\ pc = "raised" => caller = "api" /\ error.type = "ValueError"
        /\ pc = "done" => caller = "main" /\ ~csv.written
        /\ results = <<>>

C4_Witness == Len(texts) = 0 /\ pc = "raised" /\ error = ValueError

\* C5: with exactly one candidate its consensus similarity is exactly 0, no
\* error is raised by the division, and the final score is
\* 0.3 * prompt similarity + 0.3 * (1 - repetition rate).
C5_SingleCandidateConsensusZero ==
    (Len(texts) = 1 /\ InLoop) =>
        /\ consensus_scores[IdAt(1)] = 0
        /\ error = NoError
        /\ \A k \in DOMAIN results :
               /\ results[k].consensus_similarity = 0
               /\ EqualTo4Digits(results[k].final_consensus_score,
                                 3 * prompt_scores[IdAt(k)]
                                 + 3 * (Scale - calculate_repetition_rate(texts[k].text)))

\* a single candidate that shares a term with the prompt
C5_Witness ==
    /\ Returned
    /\ Len(texts) = 1
    /\ prompt_scores[IdAt(1)] > 0
    /\ results[1].final_consensus_score > 3000

\* C6: a text with fewer than 2 whitespace-separated tokens has repetition rate
\* 0, and the repetition term of its final score is exactly 0.3.
C6_ShortTextNoRepetition ==
    \A k \in DOMAIN texts :
        Len(Split(texts[k].text)) < 2 =>
            /\ calculate_repetition_rate(texts[k].text) = 0
            /\ (InLoop /\ k <= Len(results)) =>
                   /\ results[k].w_rep_inv = Unit4
                   /\ EqualTo4Digits(results[k].final_consensus_score,
                                     4 * consensus_scores[IdAt(k)]
                                     + 3 * prompt_scores[IdAt(k)]
                                     + 3 * Scale)

\* a returned batch with a one-word text, an empty text and a peer with words
C6_Witness ==
    /\ Returned
    /\ \E k \in DOMAIN texts : Len(Split(texts[k].text)) = 1
    /\ \E k \in DOMAIN texts : texts[k].text \in {<<>>, <<Whitespace>>}

\* C7 (as claimed): with a non-empty mapping calculate_metrics raises no error,
\* also when some or all texts are empty or whitespace only.
C7_DegenerateTextsNeverRaise == Len(texts) > 0 => pc # "raised"

\* C8 (as claimed): with an empty prompt and non-empty candidate texts the
\* operation does not fail and every prompt similarity is 0.
C8_EmptyPromptSimilarityZero ==
    (/\ prompt = <<>>
     /\ Len(texts) > 0
     /\ \A k \in DOMAIN texts : Split(texts[k].text) # <<>>) =>
        /\ pc # "raised"
        /\ InLoop => \A k \in DOMAIN texts : prompt_scores[IdAt(k)] = 0

\* C10: the k-th record is the record of the k-th key of the mapping, whatever
\* the scores are.
C10_ResultsInKeyOrder ==
    InLoop => \A k \in DOMAIN results : results[k].model_name = IdAt(k)

\* keys in reverse name order, and the later candidate scores higher
C10_Witness ==
    /\ Returned
    /\ Len(texts) = 2
    /\ IdAt(1) = "B"
    /\ results[1].final_consensus_score < results[2].final_consensus_score

\* C11: a call either hands the caller the records of all candidates or fails
\* as a whole: an exception leaves no record and no file, and a returned list
\* (and the file main writes from it) names every candidate.
C11_AllOrNothing ==
    /\ pc = "raised" => results = <<>> /\ ~csv.written
    /\ Returned => {results[j].model_name : j \in DOMAIN results} = Range(Keys(texts))
    /\ csv.written =>
           {csv.rows[j].model_name : j \in DOMAIN csv.rows} = Range(Keys(texts))

\* a batch of two candidates that failed as a whole
C11_Witness == pc = "raised" /\ Len(texts) = 2 /\ results = <<>>

\* the steps of calculate_metrics
InCall == pc \in {"l64", "l65", "loop"}

\* C12: no step of calculate_metrics changes the prompt, the candidate mapping
\* (keys, values, key order) or a file.
C12_NoSideEffects ==
    [][InCall => (prompt' = prompt /\ texts' = texts /\ csv' = csv)]_vars

\* a call that has gone through every step and returned
C12_Witness == pc = "returned" /\ Len(texts) = 2 /\ Len(results) = 2 /\ ~csv.written

\* the similarity maps of lines 64-65 are computed
ScoresKnown == pc = "l65" \/ InLoop

\* C14 (as claimed): in a batch of N >= 2 candidates the consensus similarity of
\* every candidate is the arithmetic mean of its cosine similarities to the
\* N - 1 other candidates.
C14_ConsensusIsMeanOfOthers ==
    (ScoresKnown /\ Len(texts) >= 2) =>
        LET tfidf_matrix == TfidfMatrix(Values(texts))
            others(i) == DOMAIN texts \ {i}
            toOthers(i) ==
                SumSet([j \in others(i) |->
                            CosineSimilarity(tfidf_matrix[i], tfidf_matrix[j])],
                       others(i))
        IN  \A i \in DOMAIN texts :
                Abs(consensus_scores[IdAt(i)] * (Len(texts) - 1) - toOthers(i))
                    <= Len(texts)

\* 10 times the weighted sum of the reported sub-scores of a record, in units
\* of 0.0001
SumOfReported(r) ==
    WeightConsensus * r.consensus_similarity + WeightPrompt * r.prompt_similarity
    + WeightRepetition * r.w_rep_inv

\* C18: the reported final score is the weighted sum of the unrounded
\* sub-scores, rounded once, and it is within 0.0001 of the weighted sum of the
\* three reported (rounded) sub-scores.
C18_RoundedOnce ==
    InLoop =>
        \A k \in DOMAIN results :
            /\ results[k].final_consensus_score \in
                   Round4(WeightedScore(consensus_scores[IdAt(k)], prompt_scores[IdAt(k)],
                                        Scale - calculate_repetition_rate(texts[k].text)),
                          AnyError)
            /\ Abs(10 * results[k].final_consensus_score - SumOfReported(results[k])) <= 10

\* a returned record whose final score is not the weighted sum of its reported
\* sub-scores
C18_Witness ==
    /\ Returned
    /\ \E k \in DOMAIN results :
           10 * results[k].final_consensus_score # SumOfReported(results[k])

\* the tokens of a text, as written
Tokens(text) == Split(text)

\* two tokens are the same word when they are equal after lower-casing
SameWord(x, y) == Lower(x) = Lower(y)

\* the number of adjacent pairs of a token list
TotalPairs(ws) == Len(ws) - 1

\* the number of distinct adjacent word pairs of a token list: the positions
\* whose pair has not occurred at an earlier position
DistinctPairs(ws) ==
    Cardinality({i \in 1..TotalPairs(ws) :
                    \A j \in 1..(i - 1) :
                        ~(SameWord(ws[j], ws[i]) /\ SameWord(ws[j + 1], ws[i + 1]))})

\* the text with the letter case of every token changed
SwapCase(text) ==
    [i \in DOMAIN text |->
        CASE text[i] = "Cat" -> "cat"
          [] text[i] = "cat" -> "Cat"
          [] OTHER -> text[i]]

\* C13: for a text of at least 2 tokens the returned rate is
\* 1 - distinct/total over the adjacent pairs of lower-cased tokens, of which
\* there are (token count - 1); the contributed score 1 - rate is
\* distinct/total; changing the letter case of the tokens changes nothing.
C13_RepetitionRateOfPairs ==
    (rep_pc = "returned" /\ Len(Tokens(rep_text)) >= 2) =>
        LET ws == Tokens(rep_text)
            total == TotalPairs(ws)
            distinct == DistinctPairs(ws)
        IN  /\ total = Len(ws) - 1
            /\ Abs(rep_rate * total - (total - distinct) * Scale) <= total
            /\ Abs((Scale - rep_rate) * total - distinct * Scale) <= total
            /\ rep_rate = calculate_repetition_rate(SwapCase(rep_text))

\* a text whose pairs repeat only up to letter case: "Cat mat cat mat ..."
C13_Witness ==
    /\ rep_pc = "returned"
    /\ Len(rep_text) >= 4
    /\ \E i \in 1..(Len(rep_text) - 2) :
           rep_text[i] # rep_text[i + 2] /\ SameWord(rep_text[i], rep_text[i + 2])
    /\ DistinctPairs(Tokens(rep_text)) = 2
    /\ rep_rate > 0

\* text is k repetitions of the two words x y
IsRepetition(text, k, x, y) ==
    /\ Len(text) = 2 * k
    /\ \A i \in 1..k : SameWord(text[2 * i - 1], x) /\ SameWord(text[2 * i], y)

\* the texts of n words whose adjacent pairs are all distinct
AllDistinctTexts(n) ==
    {u \in [1..n -> RepWords] : DistinctPairs(u) = TotalPairs(u)}

\* C17: for a text of k >= 2 repetitions of two different words x y the
\* pairs are 2 distinct of 2k - 1 and the contribution 0.3 * (1 - rate) is
\* 0.3 * 2/(2k - 1); it is less than the contribution of k - 1 repetitions
\* (k >= 3) and less than the contribution of every text of the same length
\* whose pairs are all distinct.
C17_RepeatedBigram ==
    \A k \in 2..(MaxRepWords \div 2), x \in RepWords, y \in RepWords :
        (rep_pc = "returned" /\ ~SameWord(x, y) /\ IsRepetition(rep_text, k, x, y)) =>
            LET w == Scale - rep_rate
                wOf(u) == Scale - calculate_repetition_rate(u)
            IN  /\ DistinctPairs(rep_text) = 2
                /\ TotalPairs(rep_text) = 2 * k - 1
                /\ Abs(WeightRepetition * w * (2 * k - 1) - WeightRepetition * 2 * Scale)
                       <= WeightRepetition * (2 * k - 1)
                /\ k >= 3 =>
                       WeightRepetition * w
                           < WeightRepetition * wOf(SubSeq(rep_text, 1, 2 * (k - 1)))
                /\ \A u \in AllDistinctTexts(2 * k) :
                       WeightRepetition * w < WeightRepetition * wOf(u)

\* three repetitions of two different words, scored
C17_Witness ==
    /\ rep_pc = "returned"
    /\ \E x \in RepWords, y \in RepWords :
           ~SameWord(x, y) /\ IsRepetition(rep_text, 3, x, y)
    /\ AllDistinctTexts(6) # {}
    /\ rep_rate > Scale \div 2

\* the second call on the mapping has returned
ReturnedAgain == Returned /\ prev.called

\* C15: two calls on one candidate mapping with different prompts report the
\* same consensus_similarity and the same w_rep_inv for every candidate.
C15_PromptNotInConsensusSpace ==
    ReturnedAgain =>
        /\ Len(results) = Len(prev.results)
        /\ \A k \in DOMAIN results :
               /\ results[k].model_name = prev.results[k].model_name
               /\ results[k].consensus_similarity = prev.results[k].consensus_similarity
               /\ results[k].w_rep_inv = prev.results[k].w_rep_inv

\* two calls with different prompts whose prompt similarities and final scores
\* differ for a candidate of fractional consensus similarity
C15_Witness ==
    /\ ReturnedAgain
    /\ prev.prompt # prompt
    /\ Len(texts) = 2
    /\ \E k \in DOMAIN results :
           /\ results[k].prompt_similarity # prev.results[k].prompt_similarity
           /\ results[k].final_consensus_score # prev.results[k].final_consensus_score
           /\ results[k].consensus_similarity \in 1..(Unit4 - 1)

\* the batch is {"A": t, "B": t, "C": u} with t, u and the prompt as in Scenario
InScenario ==
    /\ Len(texts) = 3
    /\ texts[1].text = texts[2].text
    /\ Scenario(prompt, texts[1].text, texts[3].text)

\* C16: with A and B identical, C sharing no term with them and the prompt
\* sharing a term with A/B and none with C, the call does not fail, the
\* similarity of A and B is 1, and A and B have the same consensus similarity
\* and the same prompt similarity, both higher than C's; the same holds of the
\* reported values.
C16_IdenticalPairAndOutlier ==
    InScenario =>
        /\ pc # "raised"
        /\ InLoop =>
               LET tfidf_matrix == TfidfMatrix(Values(texts))
                   ab == CosineSimilarity(tfidf_matrix[1], tfidf_matrix[2])
                   a == IdAt(1)
                   b == IdAt(2)
                   c == IdAt(3)
               IN  /\ Abs(ab - Scale) <= 2
                   /\ Round4(ab, AnyError) = {Unit4}
                   /\ consensus_scores[a] = consensus_scores[b]
                   /\ consensus_scores[a] > consensus_scores[c]
                   /\ prompt_scores[a] = prompt_scores[b]
                   /\ prompt_scores[a] > prompt_scores[c]
        /\ Returned =>
               /\ results[1].consensus_similarity = results[2].consensus_similarity
               /\ results[1].consensus_similarity > results[3].consensus_similarity
               /\ results[1].prompt_similarity = results[2].prompt_similarity
               /\ results[1].prompt_similarity > results[3].prompt_similarity

\* the scenario has returned, with C a text of a term of its own: A and B
\* score 0.5 and C scores 0 on consensus
C16_Witness ==
    /\ InScenario
    /\ pc = "returned"
    /\ Len(results) = 3
    /\ Terms(texts[3].text) # {}
    /\ results[1].consensus_similarity = Unit4 \div 2
    /\ results[3].consensus_similarity = 0
    /\ results[1].prompt_similarity > 0

\* the file names of a list of rows or of scoring calls
NamesOf(rows) == [k \in DOMAIN rows |-> rows[k].model_name]

\* the file names of the scoring calls made, in order
Attempted == [k \in DOMAIN attempts |-> attempts[k].filename]

\* the file names of the scoring calls that succeeded, in order
Succeeded ==
    LET ok == SelectSeq(attempts, LAMBDA a : a.ok)
    IN  [k \in DOMAIN ok |-> ok[k].filename]

\* C19: in the scoring loop of either script every text taken so far has
\* been attempted once, in iteration order, whether or not an earlier call
\* raised, and the results hold one row for each call that succeeded, in that
\* order; when the loop ends all texts have been attempted.
C19_ExceptionSkipsOneText ==
    /\ pi_pc = "loop" =>
           /\ pi_i <= Len(pi_texts)
           /\ Attempted = SubSeq(pi_texts, 1, pi_i)
    /\ (pi_pc = "loop" /\ pi_i >= Len(pi_texts)) => Attempted = pi_texts
    /\ NamesOf(pi_results) = Succeeded

\* the loop of either script ended after a call raised and a later one
\* succeeded
C19_Witness ==
    /\ pi_pc = "loop"
    /\ pi_i = Len(pi_texts)
    /\ \E j \in DOMAIN attempts, k \in DOMAIN attempts :
           j < k /\ ~attempts[j].ok /\ attempts[k].ok
    /\ Len(pi_results) < Len(pi_texts)
    /\ pi_results # <<>>

\* the ways calibrate_scoring_system fails
CalibrationFailures ==
    {"start_job_raised", "stream_raised", "retrieve_raised", "no_calibrated_scoring_spec",
     "retrieved_none"}

\* C20: in cal_pi_scores every scoring call is made with the calibrated spec
\* of a calibration that completed; when the job fails to start, stream or
\* retrieve, or its result has no calibrated_scoring_spec, the function
\* returns None and main stops with no scoring call and no output file.
C20_NoScoringBeforeCalibration ==
    script = "cal_pi_scores" =>
        /\ \A k \in DOMAIN attempts :
               /\ calibration = "retrieved"
               /\ attempts[k].spec = CalibratedSpec
        /\ output_csv.written => calibration = "retrieved"
        /\ calibration \in CalibrationFailures =>
               /\ calibrated_spec = None
               /\ pi_pc \in {"l183", "done"}
               /\ attempts = <<>>
               /\ ~output_csv.written

\* main has stopped after the retrieved result had no calibrated_scoring_spec
C20_Witness ==
    /\ script = "cal_pi_scores"
    /\ calibration = "no_calibrated_scoring_spec"
    /\ pi_pc = "done"
    /\ pi_texts # <<>>
    /\ attempts = <<>>

\* the score of the row's criterion in a dict of scores
ScoreIn(d, criterion) ==
    IF criterion = "TOTAL SCORE" THEN d.total_score ELSE Item(d.question_scores, criterion)

\* C21 (as claimed): once standard scoring has succeeded the rows of all
\* criteria and of the total are built and saved; calibrated_score and
\* score_difference of a row are None exactly when calibrated scoring failed,
\* and otherwise are the calibrated score and calibrated - standard, rounded to
\* 4 digits.
C21_RowsCarryCalibratedScores ==
    /\ (standard_scores # Nothing /\ ev_pc \in {"done", "raised"}) =>
           /\ ev_csv.written
           /\ [k \in DOMAIN ev_csv.rows |-> ev_csv.rows[k].criterion]
                  = EvalKeys(standard_scores[1].question_scores) \o <<"TOTAL SCORE">>
    /\ \A k \in DOMAIN ev_results :
           LET row == ev_results[k]
               std == ScoreIn(standard_scores[1], row.criterion)
           IN  /\ row.standard_score \in RoundInput(std)
               /\ (row.calibrated_score = Nothing) <=> (calibrated_scores = Nothing)
               /\ (row.score_difference = Nothing) <=> (calibrated_scores = Nothing)
               /\ calibrated_scores # Nothing =>
                      LET cal == ScoreIn(calibrated_scores[1], row.criterion)
                      IN  /\ row.calibrated_score \in {Some(v) : v \in RoundInput(cal)}
                          /\ row.score_difference
                                 \in {Some(v) : v \in Round4(cal - std, AnyError)}

\* no request made so far has raised
NoRequestRaised == \A k \in DOMAIN runs : runs[k].outcome # "raises"

\* the number of parameter combinations
Combinations == Len(temperatures) * Len(top_p_values) * Len(max_tokens_values)

\* the k-th request of a search in which each combination, taken in the order
\* of the nested lists, is run once for OpenAI, Claude and Llama in that order
ExpectedRun(k) ==
    LET g == (k - 1) \div 3
        perTemp == Len(top_p_values) * Len(max_tokens_values)
    IN  [model |-> ModelNames[((k - 1) % 3) + 1],
         temp |-> temperatures[(g \div perTemp) + 1],
         top_p |-> top_p_values[((g \div Len(max_tokens_values)) % Len(top_p_values)) + 1],
         max_tok |-> max_tokens_values[(g % Len(max_tokens_values)) + 1]]

\* the request of run k, without its number and outcome
RunAt(k) ==
    [model |-> runs[k].model, temp |-> runs[k].temp, top_p |-> runs[k].top_p,
     max_tok |-> runs[k].max_tok]

\* C22: while no request raises, total_runs is 4*4*5*3 = 240, current_run
\* counts the requests made and never exceeds total_runs, the k-th request
\* has number k and is the k-th of the order "every combination once, for
\* OpenAI, then Claude, then Llama"; when the search ends current_run is
\* total_runs and the 240 requests are all different.
C22_GridRunsEachCombinationOnce ==
    NoRequestRaised =>
        /\ total_runs = 4 * 4 * 5 * 3
        /\ total_runs = 240
        /\ current_run <= total_runs
        /\ current_run = Len(runs)
        /\ \A k \in DOMAIN runs : runs[k].run = k /\ RunAt(k) = ExpectedRun(k)
        /\ grid_pc # "raised"
        /\ grid_pc = "done" =>
               /\ current_run = total_runs
               /\ Cardinality({RunAt(k) : k \in DOMAIN runs}) = 3 * Combinations

\* a search that ended with no request raised, some of them without output
C22_Witness ==
    /\ grid_pc = "done"
    /\ NoRequestRaised
    /\ Len(runs) = 240
    /\ service.kind = "empty"

\* the runs that wrote the file of the given request
WritersOf(model_name, temp, top_p, max_tok) ==
    LET filename == Filename(model_name, Params(temp, top_p, max_tok))
    IN  IF filename \in DOMAIN files THEN Range(files[filename]) ELSE {}

\* C23: a Llama request that raises is followed by the next request (or the
\* end of the search) and writes no file, and a search with such failures
\* ends only after all total_runs requests; a raising OpenAI or Claude
\* request is the last request of a search that stops before total_runs.
C23_LlamaFailureDoesNotStopSearch ==
    /\ \A k \in DOMAIN runs :
           runs[k].outcome = "raises" =>
               IF runs[k].model = "Llama-3.3_70B"
               THEN /\ k \notin WritersOf(runs[k].model, runs[k].temp, runs[k].top_p,
                                          runs[k].max_tok)
                    /\ k = Len(runs) => grid_pc \in {"openai", "done"}
               ELSE /\ k = Len(runs)
                    /\ grid_pc = "raised"
                    /\ current_run < total_runs
    /\ grid_pc = "done" => current_run = total_runs /\ Len(runs) = total_runs
    /\ grid_pc = "raised" =>
           /\ runs # <<>>
           /\ runs[Len(runs)].outcome = "raises"
           /\ runs[Len(runs)].model \in {"OpenAI_GPT-4o", "Claude_3.5"}

\* a search that ran all requests although Llama requests raised
C23_Witness ==
    /\ grid_pc = "done"
    /\ current_run = total_runs
    /\ \E k \in DOMAIN runs : runs[k].model = "Llama-3.3_70B" /\ runs[k].outcome = "raises"
    /\ \E k \in DOMAIN runs : runs[k].model = "Llama-3.3_70B" /\ runs[k].outcome = "text"

\* C24: a run has written its file exactly when its output was a non-empty
\* text, under the name built from the model name and the parameters, and no
\* file has been written by more than one run.
C24_NoFileOverwritten ==
    /\ \A k \in DOMAIN runs :
           (k \in WritersOf(runs[k].model, runs[k].temp, runs[k].top_p, runs[k].max_tok))
               <=> runs[k].outcome = "text"
    /\ \A f \in DOMAIN files : Len(files[f]) = 1
    /\ Cardinality(DOMAIN files)
           = Cardinality({k \in DOMAIN runs : runs[k].outcome = "text"})

\* a whole search whose 240 outputs are all saved, the first one as
\* outputs/OpenAI_GPT-4o_temp-0.5_top_p-0.5_max_tok-2000.txt
C24_Witness ==
    /\ grid_pc = "done"
    /\ Cardinality(DOMAIN files) = 240
    /\ "outputs/OpenAI_GPT-4o_temp-0.5_top_p-0.5_max_tok-2000.txt" \in DOMAIN files
    /\ "outputs/Llama-3.3_70B_temp-1.5_top_p-1.0_max_tok-10000.txt" \in DOMAIN files

\* the four quadrant labels
QuadrantLabels ==
    {"Goldilocks (High PI + High Consensus)",
     "Creative Excellence (High PI + Low Consensus)",
     "Safe Consensus (Low PI + High Consensus)",
     "Avoid (Low PI + Low Consensus)"}

\* the label of a row that is High or Low on the PI axis and High or Low on
\* the consensus axis
LabelOf(piHigh, consensusHigh) ==
    CASE piHigh /\ consensusHigh -> "Goldilocks (High PI + High Consensus)"
      [] piHigh /\ ~consensusHigh -> "Creative Excellence (High PI + Low Consensus)"
      [] ~piHigh /\ consensusHigh -> "Safe Consensus (Low PI + High Consensus)"
      [] OTHER -> "Avoid (Low PI + Low Consensus)"

\* C25: every classified row has one of the four labels, the one whose PI
\* part is High exactly when the row's score in the column analyze_quadrants
\* chose (calibrated_total_score when present, else total_score) is >= the
\* median of that column, and whose consensus part is High exactly when its
\* final_consensus_score is >= the median of that column.
C25_QuadrantByMedians ==
    quad_pc \in {"l46", "returned"} =>
        /\ pi_col = (IF \A k \in DOMAIN df : "calibrated_total_score" \in DOMAIN df[k]
                     THEN "calibrated_total_score" ELSE "total_score")
        /\ pi_median = Median(Column(df, pi_col))
        /\ consensus_median = Median(Column(df, "final_consensus_score"))
        /\ \A k \in DOMAIN quadrant :
               /\ quadrant[k] \in QuadrantLabels
               /\ quadrant[k] = LabelOf(2 * df[k][pi_col] >= pi_median,
                                        2 * df[k]["final_consensus_score"]
                                            >= consensus_median)
        /\ quad_pc = "returned" =>
               /\ Len(quadrant) = Len(df)
               /\ \A k \in DOMAIN df : df[k]["quadrant"] = quadrant[k]

\* a returned frame with calibrated scores in which a row ties with both
\* medians and its calibrated score is on the other side of the PI median
\* than its original score
C25_Witness ==
    /\ quad_pc = "returned"
    /\ pi_col = "calibrated_total_score"
    /\ Len(df) = 3
    /\ \E k \in DOMAIN df :
           /\ 2 * df[k]["calibrated_total_score"] = pi_median
           /\ 2 * df[k]["final_consensus_score"] = consensus_median
           /\ 2 * df[k]["total_score"] < pi_median
           /\ df[k]["quadrant"] = "Goldilocks (High PI + High Consensus)"
    /\ \E k \in DOMAIN df : df[k]["quadrant"] = "Avoid (Low PI + Low Consensus)"

====
